---- MODULE Spec2Model ----
(***************************************************************************)
(* A state-machine model of the safe access layer of rust-systemd's bus    *)
(* module (src/src/bus/mod.rs): reference-counted owning handles (Bus,     *)
(* Message) and their borrowed views (BusRef, MessageRef), the message     *)
(* sealing life cycle, cursors (MessageIter) and the callback trampoline.  *)
(*                                                                         *)
(* The native runtime (sd-bus) is not part of the repository.  Each native *)
(* function the layer calls is an operator named after it that yields the  *)
(* SET of outcomes the call may have: what the layer's own documentation   *)
(* states about it ("Fails if the message is sealed", "Seals `self`",      *)
(* "Requires that message is sealed", "send keeps a reference") is         *)
(* deterministic, everything else (whether a fallible call succeeds) is a  *)
(* nondeterministic choice.  The wrappers of the layer are modelled from   *)
(* their code: what they pass on, what they check, what they wrap.         *)
(***************************************************************************)
EXTENDS Integers, Sequences, FiniteSets, TLC

\* ------------------------------------------------------------------ bounds
MaxBusHandles == 3      \* owning Bus handles alive at once
MaxMsgs       == 2      \* messages the runtime allocates in one run
MaxHandles    == 2      \* owning Message handles alive at once
MaxBody       == 2      \* values appended to one message
MaxSends      == 2      \* transmissions of one message
MaxOps        == 5      \* operations in one run
MaxCursorOps  == 7      \* operations in one run of writing and reading a body

BusHandleIds == 1..MaxBusHandles
Msgs         == 1..MaxMsgs
Handles      == 1..MaxHandles
\* A pointer value that is none of the messages the runtime allocated.
Wild         == MaxMsgs + 1
\* A MessageRef is reached through an owning handle (Deref) or is the view the
\* trampoline hands to a callback, written 0.
Refs         == 0..MaxHandles
Dests        == {"dA"}
\* The primitive values a caller appends: a u8 and a u16, each with the wire
\* type its Rust type maps to.
BasicValues  == {[type |-> "y", v |-> 7], [type |-> "q", v |-> 258]}

VARIABLES
    bus,         \* the connection: [refcnt, released]
    busHandles,  \* ids of the live owning Bus handles
    busView,     \* the Bus handle a live &BusRef was borrowed from, 0 if none
    msg,         \* per message: [alloc, sealed, refcnt, rtRefs, body, rindex, dest, autoStart, sent]
    raw,         \* per Message handle: the pointer it holds, 0 if no such handle is live
    cursors,     \* the refs a live MessageIter borrows
    closure,     \* the caller's callback closure: "alive" or "dropped"
    reg,         \* how the closure's address is registered: "none", "async", "object"
    inCb,        \* the message the trampoline is running the callback on, 0 if none
    lastOp,      \* the operation that ran last and what it returned
    ops,         \* the number of operations that have run
    appended,    \* the values append() accepted, in order
    got,         \* the values the cursor's reads returned, in order
    input,       \* the byte slice handed to a from_bytes validator
    ret_error,   \* the error slot the runtime hands to the trampoline, <<>> if none
    frees,       \* how often the buffers of the callback's Error were freed
    journal      \* the journal reader and the journal it reads, <<>> if none is open

vars == <<bus, busHandles, busView, msg, raw, cursors, closure, reg, inCb, lastOp, ops,
          appended, got, input, ret_error, frees, journal>>
busVars == <<bus, busHandles, busView>>
cbVars == <<closure, reg, inCb>>

NoMsg == [alloc |-> "none", sealed |-> FALSE, refcnt |-> 0, rtRefs |-> 0,
          body |-> <<>>, rindex |-> 0, dest |-> "none", autoStart |-> TRUE, sent |-> 0]

\* val: the values the operation was given or returned, as a tuple.
Op(name, m, status, ret) ==
    [op |-> name, m |-> m, status |-> status, ret |-> ret, reply |-> 0, val |-> <<>>,
     arg |-> "none"]

Init ==
    /\ bus = [refcnt |-> 0, released |-> 0]
    /\ busHandles = {}
    /\ busView = 0
    /\ msg = [m \in Msgs |-> NoMsg]
    /\ raw = [h \in Handles |-> 0]
    /\ cursors = {}
    /\ closure = "alive"
    /\ reg = "none"
    /\ inCb = 0
    /\ lastOp = Op("init", 0, 0, "none")
    /\ ops = 0
    /\ appended = <<>>
    /\ got = <<>>
    /\ input = <<>>
    /\ ret_error = <<>>
    /\ frees = 0
    /\ journal = <<>>

\* ------------------------------------------------- result conversion
\* sd_try! and ::ffi_result: a negative status is an error.
ffi_result(status) == IF status < 0 THEN "Err" ELSE "Ok"

\* RawError::into_result: Ok exactly when the error slot is unset.
into_result(slot) == IF slot = "set" THEN "Err" ELSE "Ok"

\* ------------------------------------------------------ the connection
sd_bus_ref(b) == [b EXCEPT !.refcnt = @ + 1]

sd_bus_unref(b) ==
    IF b.refcnt = 1
    THEN [b EXCEPT !.refcnt = 0, !.released = @ + 1]
    ELSE [b EXCEPT !.refcnt = @ - 1]

\* sd_bus_default: fails, or hands out one more reference to the connection.
sd_bus_default(b) == {[status |-> -1, bus |-> b], [status |-> 0, bus |-> sd_bus_ref(b)]}

FreeBusHandle == CHOOSE h \in BusHandleIds : h \notin busHandles /\ \A k \in 1..(h - 1) : k \in busHandles

\* Bus::default (Bus { raw: b } after sd_try!).  The model follows one
\* connection from its opening to its release.
Bus_default ==
    /\ busHandles # BusHandleIds
    /\ bus.released = 0
    /\ \E o \in sd_bus_default(bus) :
        /\ bus' = o.bus
        /\ busHandles' = IF ffi_result(o.status) = "Ok" THEN busHandles \cup {FreeBusHandle} ELSE busHandles
        /\ lastOp' = Op("Bus::default", 0, o.status, ffi_result(o.status))
    /\ UNCHANGED <<busView, msg, raw, cursors, cbVars>>

\* Bus::from_ptr: Bus { raw: sd_bus_ref(r) }.
Bus_from_ptr(b) == sd_bus_ref(b)

\* A clone that copies the pointer and takes no reference.
Bus_clone_noref(b) == b

\* impl Clone for Bus: Bus { raw: sd_bus_ref(self.raw) }.
Bus_clone_raw(b) == sd_bus_ref(b)

Bus_clone ==
    /\ busHandles # BusHandleIds
    /\ \E h \in busHandles :
        /\ bus' = Bus_clone_raw(bus)
        /\ busHandles' = busHandles \cup {FreeBusHandle}
        /\ lastOp' = Op("Bus::clone", 0, 0, "none")
    /\ UNCHANGED <<busView, msg, raw, cursors, cbVars>>

\* impl Drop for Bus: sd_bus_unref(self.raw).  A handle a view borrows
\* cannot be dropped.
Bus_drop ==
    /\ \E h \in busHandles :
        /\ h # busView
        /\ bus.refcnt > 0
        /\ bus' = sd_bus_unref(bus)
        /\ busHandles' = busHandles \ {h}
        /\ lastOp' = Op("Bus::drop", 0, 0, "none")
    /\ UNCHANGED <<busView, msg, raw, cursors, cbVars>>

\* impl Borrow<BusRef> / Deref for Bus: BusRef::from_ptr(self.as_ptr()).
Bus_borrow ==
    /\ busView = 0
    /\ \E h \in busHandles :
        /\ busView' = h
        /\ lastOp' = Op("Bus::borrow", 0, 0, "none")
    /\ UNCHANGED <<bus, busHandles, msg, raw, cursors, cbVars>>

\* The borrow ends.
BusRef_release ==
    /\ busView # 0
    /\ busView' = 0
    /\ lastOp' = Op("BusRef::release", 0, 0, "none")
    /\ UNCHANGED <<bus, busHandles, msg, raw, cursors, cbVars>>

\* BusRef::to_owned: Bus::from_ptr(self.as_ptr()).
BusRef_to_owned ==
    /\ busView # 0
    /\ busHandles # BusHandleIds
    /\ bus' = Bus_from_ptr(bus)
    /\ busHandles' = busHandles \cup {FreeBusHandle}
    /\ lastOp' = Op("BusRef::to_owned", 0, 0, "none")
    /\ UNCHANGED <<busView, msg, raw, cursors, cbVars>>

\* ------------------------------------------------- messages: the runtime
\* sd_bus_message_ref / sd_bus_message_unref: the runtime frees the message
\* when its count reaches zero.
sd_bus_message_ref(r) == [r EXCEPT !.refcnt = @ + 1]

sd_bus_message_unref(r) ==
    IF r.refcnt = 1
    THEN [NoMsg EXCEPT !.alloc = "freed", !.sealed = r.sealed]
    ELSE [r EXCEPT !.refcnt = @ - 1]

\* The wire: a basic value of type "y" takes one byte, one of type "q" two,
\* low byte first.
Width(t) == IF t = "y" THEN 1 ELSE 2

Encode(t, n) == IF t = "y" THEN <<n % 256>> ELSE <<n % 256, (n \div 256) % 256>>

Decode(t, bytes) == IF t = "y" THEN bytes[1] ELSE bytes[1] + 256 * bytes[2]

\* One value of a message body: its type tag, the signature of its contents
\* ("NULL" unless it is a container) and its bytes.
Item(t, c, bytes) == [type |-> t, contents |-> c, bytes |-> bytes]

\* The body of a message received from the bus: a byte and an array of bytes.
ReceivedBody == <<Item("y", "NULL", <<1>>), Item("a", "y", <<>>)>>

\* A message the runtime creates: one reference, handed to whoever asked.
NewMsg(sealedNow, d, b) ==
    [alloc |-> "live", sealed |-> sealedNow, refcnt |-> 1, rtRefs |-> 0,
     body |-> b, rindex |-> 0, dest |-> d, autoStart |-> TRUE, sent |-> 0]

\* sd_bus_message_set_destination: "Fails if the message is sealed".
sd_bus_message_set_destination(r, d) ==
    IF r.sealed
    THEN {[status |-> -1, msg |-> r]}
    ELSE {[status |-> -1, msg |-> r], [status |-> 0, msg |-> [r EXCEPT !.dest = d]]}

\* sd_bus_message_set_auto_start: "Fails if the message is sealed".
sd_bus_message_set_auto_start(r, yes) ==
    IF r.sealed
    THEN {[status |-> -1, msg |-> r]}
    ELSE {[status |-> -1, msg |-> r], [status |-> 0, msg |-> [r EXCEPT !.autoStart = yes]]}

\* sd_bus_message_append_basic(m, type, p): "Will fail if the message is
\* sealed".  It may also reject the value; otherwise it copies as many bytes
\* from p as the type is wide.
sd_bus_message_append_basic(r, t, p) ==
    IF r.sealed
    THEN {[status |-> -1, msg |-> r]}
    ELSE {[status |-> -1, msg |-> r]}
         \cup {[status |-> 0, msg |-> [r EXCEPT !.body = Append(@, Item(t, "NULL", SubSeq(p, 1, Width(t))))]] :
                    x \in {y \in {t} : Len(r.body) < MaxBody}}

\* The runtime seals a message it accepts for transmission; a message that
\* is sealed already is left as it is.
Sealed(r) == [r EXCEPT !.sealed = TRUE]

\* The runtime transmits the sealed message.  (The reference it keeps on the
\* message while it writes it out is its own and is not followed here.)
Queued(r) == [Sealed(r) EXCEPT !.sent = @ + 1]

\* sd_bus_send: fails before sealing, fails after sealing, or seals and
\* transmits.  Nothing in it tells a sealed message from an unsealed one.
sd_bus_send(r) ==
    {[status |-> -1, msg |-> r], [status |-> -1, msg |-> Sealed(r)]}
    \cup {[status |-> 1, msg |-> Queued(r)] : x \in {y \in {r} : r.sent < MaxSends}}

\* sd_bus_send_to: "Internally, this is the same as .set_destination() +
\* .send()"; the destination is set only when it differs.
sd_bus_send_to(r, d) ==
    LET first == IF r.dest = d THEN {[status |-> 0, msg |-> r]}
                 ELSE sd_bus_message_set_destination(r, d)
    IN  UNION {IF o.status < 0 THEN {o} ELSE sd_bus_send(o.msg) : o \in first}

\* sd_bus_call: blocks for the reply.  It fails before sealing or after the
\* message went out, with the error slot set or left unset, and writes the
\* reply pointer only when it succeeds.
sd_bus_call(r) ==
    {[status |-> -1, slot |-> s, reply |-> FALSE, msg |-> r] : s \in {"set", "unset"}}
    \cup {[status |-> -1, slot |-> s, reply |-> FALSE, msg |-> Queued(r)] :
            s \in {y \in {"set", "unset"} : r.sent < MaxSends}}
    \cup {[status |-> 1, slot |-> "unset", reply |-> TRUE, msg |-> Queued(r)] :
            x \in {y \in {r} : r.sent < MaxSends}}

\* sd_bus_message_peek_type(m, &type, &contents): "Requires that message is
\* sealed".  It fails, or reports the value at the read position and leaves
\* the position alone; at the end of the body it returns 0, type 0 and no
\* contents.
sd_bus_message_peek_type(r) ==
    IF r.sealed
    THEN {[status |-> -1, type |-> "uninitialized", contents |-> "uninitialized"],
          IF r.rindex < Len(r.body)
          THEN [status |-> 1, type |-> r.body[r.rindex + 1].type,
                contents |-> r.body[r.rindex + 1].contents]
          ELSE [status |-> 0, type |-> "0", contents |-> "NULL"]}
    ELSE {[status |-> -1, type |-> "uninitialized", contents |-> "uninitialized"]}

\* sd_bus_message_read_basic(m, type, &v): needs a sealed message.  A value of
\* the requested type at the read position is written to v and the position
\* moves past it (1); at the end of the body and on a value of another type
\* the call fails and the position stays.
sd_bus_message_read_basic(r, t) ==
    IF r.sealed /\ r.rindex < Len(r.body) /\ r.body[r.rindex + 1].type = t
    THEN {[status |-> 1, v |-> r.body[r.rindex + 1].bytes, msg |-> [r EXCEPT !.rindex = @ + 1]]}
    ELSE {[status |-> -1, v |-> <<>>, msg |-> r]}

\* ------------------------------------------------- messages: the handles
FreeMsg == CHOOSE m \in Msgs : msg[m].alloc = "none" /\ \A k \in 1..(m - 1) : msg[k].alloc # "none"
HasFreeMsg == \E m \in Msgs : msg[m].alloc = "none"

FreeHandle == CHOOSE h \in Handles : raw[h] = 0 /\ \A k \in 1..(h - 1) : raw[k] # 0
HasFreeHandle == \E h \in Handles : raw[h] = 0

\* The message a ref points at.
Target(ref) == IF ref = 0 THEN inCb ELSE raw[ref]

\* A ref the program may use: a live handle (impl Deref for Message) or the
\* callback's view, not borrowed by a live MessageIter.  The model does not
\* follow the program through a use of a pointer to no live message.
Usable(ref) ==
    /\ ref \notin cursors
    /\ Target(ref) \in Msgs
    /\ msg[Target(ref)].alloc = "live"

\* Message::take_ptr: Message { raw: p }, the count is not touched.
Message_take_ptr(r) == r

\* BusRef::new_method_call: Message::take_ptr(m) after sd_try!.
new_method_call ==
    /\ \E b \in busHandles : b # busView
    /\ HasFreeMsg /\ HasFreeHandle
    /\ \E d \in Dests, status \in {-1, 0} :
        /\ msg' = IF status < 0 THEN msg
                  ELSE [msg EXCEPT ![FreeMsg] = Message_take_ptr(NewMsg(FALSE, d, <<>>))]
        /\ raw' = IF ffi_result(status) = "Ok" THEN [raw EXCEPT ![FreeHandle] = FreeMsg] ELSE raw
        /\ lastOp' = Op("new_method_call", IF status < 0 THEN 0 ELSE FreeMsg, status, ffi_result(status))
    /\ UNCHANGED <<busVars, cursors, cbVars>>

\* BusRef::new_signal: Message::take_ptr(m) after sd_try!; no destination.
new_signal ==
    /\ \E b \in busHandles : b # busView
    /\ HasFreeMsg /\ HasFreeHandle
    /\ \E status \in {-1, 0} :
        /\ msg' = IF status < 0 THEN msg
                  ELSE [msg EXCEPT ![FreeMsg] = Message_take_ptr(NewMsg(FALSE, "none", <<>>))]
        /\ raw' = IF ffi_result(status) = "Ok" THEN [raw EXCEPT ![FreeHandle] = FreeMsg] ELSE raw
        /\ lastOp' = Op("new_signal", IF status < 0 THEN 0 ELSE FreeMsg, status, ffi_result(status))
    /\ UNCHANGED <<busVars, cursors, cbVars>>

\* impl Clone for Message: Message { raw: sd_bus_message_ref(self.raw) }.
Message_clone ==
    /\ HasFreeHandle
    /\ \E h \in Handles :
        /\ Usable(h)
        /\ msg' = [msg EXCEPT ![raw[h]] = sd_bus_message_ref(@)]
        /\ raw' = [raw EXCEPT ![FreeHandle] = raw[h]]
        /\ lastOp' = Op("Message::clone", raw[h], 0, "none")
    /\ UNCHANGED <<busVars, cursors, cbVars>>

\* impl ToOwned for MessageRef: Message { raw: sd_bus_message_ref(self.as_ptr()) }.
MessageRef_to_owned ==
    /\ HasFreeHandle
    /\ \E ref \in Refs :
        /\ Usable(ref)
        /\ msg' = [msg EXCEPT ![Target(ref)] = sd_bus_message_ref(@)]
        /\ raw' = [raw EXCEPT ![FreeHandle] = Target(ref)]
        /\ lastOp' = Op("MessageRef::to_owned", Target(ref), 0, "none")
    /\ UNCHANGED <<busVars, cursors, cbVars>>

\* impl Drop for Message: sd_bus_message_unref(self.raw).
Message_drop ==
    /\ \E h \in Handles :
        /\ Usable(h)
        /\ msg' = [msg EXCEPT ![raw[h]] = sd_bus_message_unref(@)]
        /\ raw' = [raw EXCEPT ![h] = 0]
        /\ lastOp' = Op("Message::drop", raw[h], 0, "none")
    /\ UNCHANGED <<busVars, cursors, cbVars>>

\* ------------------------------------------------- messages: mutation
\* MessageRef::set_destination: sd_try!(sd_bus_message_set_destination(..)); Ok(()).
\* The same without sd_try!: the status is not looked at.
set_destination_unchecked(status) == "Ok"

set_destination_result(status) == ffi_result(status)

set_destination ==
    \E ref \in Refs, d \in Dests :
        /\ Usable(ref)
        /\ \E o \in sd_bus_message_set_destination(msg[Target(ref)], d) :
            /\ msg' = [msg EXCEPT ![Target(ref)] = o.msg]
            /\ lastOp' = Op("set_destination", Target(ref), o.status, set_destination_result(o.status))
        /\ UNCHANGED <<busVars, raw, cursors, cbVars>>

\* MessageRef::set_auto_start: sd_try!(sd_bus_message_set_auto_start(..)); Ok(()).
set_auto_start_result(status) == ffi_result(status)

set_auto_start ==
    \E ref \in Refs, yes \in BOOLEAN :
        /\ Usable(ref)
        /\ \E o \in sd_bus_message_set_auto_start(msg[Target(ref)], yes) :
            /\ msg' = [msg EXCEPT ![Target(ref)] = o.msg]
            /\ lastOp' = Op("set_auto_start", Target(ref), o.status, set_auto_start_result(o.status))
        /\ UNCHANGED <<busVars, raw, cursors, cbVars>>

\* MessageRef::append_basic_raw: try!(::ffi_result(sd_bus_message_append_basic(..))); Ok(()).
append_basic_raw_result(status) == ffi_result(status)

\* SdBusMessageDirect::dbus_type: the wire type of a primitive Rust type.
dbus_type(v) == v.type

\* The bytes of a primitive value in memory, which the pointer handed to the
\* runtime points at.
as_bytes(v) == Encode(v.type, v.v)

\* MessageRef::append: v.to_message(self); a primitive value appends itself
\* with append_basic_raw(Self::dbus_type(), self as *const _).
append ==
    \E ref \in Refs, v \in BasicValues :
        /\ Usable(ref)
        /\ \E o \in sd_bus_message_append_basic(msg[Target(ref)], dbus_type(v), as_bytes(v)) :
            /\ msg' = [msg EXCEPT ![Target(ref)] = o.msg]
            /\ lastOp' = [Op("append", Target(ref), o.status, append_basic_raw_result(o.status))
                             EXCEPT !.val = <<v>>]
        /\ UNCHANGED <<busVars, raw, cursors, cbVars>>

\* ------------------------------------------------- messages: transmission
\* MessageRef::send: sd_try!(sd_bus_send(NULL, self, &mut m)); Ok(m).
\* The same without sd_try!: the status is not looked at.
send_unchecked(status) == "Ok"

send_result(status) == ffi_result(status)

\* A send that makes the message writable again when the runtime refused
\* it, so that the caller could amend and retry.
send_unsealing ==
    \E ref \in Refs :
        /\ Usable(ref)
        /\ \E o \in sd_bus_send(msg[Target(ref)]) :
            /\ msg' = [msg EXCEPT ![Target(ref)] =
                          IF o.status < 0 THEN [o.msg EXCEPT !.sealed = FALSE] ELSE o.msg]
            /\ lastOp' = Op("send", Target(ref), o.status, send_result(o.status))
        /\ UNCHANGED <<busVars, raw, cursors, cbVars>>

send ==
    \E ref \in Refs :
        /\ Usable(ref)
        /\ \E o \in sd_bus_send(msg[Target(ref)]) :
            /\ msg' = [msg EXCEPT ![Target(ref)] = o.msg]
            /\ lastOp' = Op("send", Target(ref), o.status, send_result(o.status))
        /\ UNCHANGED <<busVars, raw, cursors, cbVars>>

\* MessageRef::send_no_reply: sd_try!(sd_bus_send(NULL, self, NULL)); Ok(()).
send_no_reply_result(status) == ffi_result(status)

send_no_reply ==
    \E ref \in Refs :
        /\ Usable(ref)
        /\ \E o \in sd_bus_send(msg[Target(ref)]) :
            /\ msg' = [msg EXCEPT ![Target(ref)] = o.msg]
            /\ lastOp' = Op("send_no_reply", Target(ref), o.status, send_no_reply_result(o.status))
        /\ UNCHANGED <<busVars, raw, cursors, cbVars>>

\* MessageRef::send_to: sd_try!(sd_bus_send_to(NULL, self, dest, &mut c)); Ok(c).
\* The same without sd_try!: the status is not looked at.
send_to_unchecked(status) == "Ok"

send_to_result(status) == ffi_result(status)

send_to ==
    \E ref \in Refs, d \in Dests :
        /\ Usable(ref)
        /\ \E o \in sd_bus_send_to(msg[Target(ref)], d) :
            /\ msg' = [msg EXCEPT ![Target(ref)] = o.msg]
            /\ lastOp' = Op("send_to", Target(ref), o.status, send_to_result(o.status))
        /\ UNCHANGED <<busVars, raw, cursors, cbVars>>

\* MessageRef::send_to_no_reply: sd_try!(sd_bus_send_to(NULL, self, dest, NULL)); Ok(()).
send_to_no_reply_result(status) == ffi_result(status)

send_to_no_reply ==
    \E ref \in Refs, d \in Dests :
        /\ Usable(ref)
        /\ \E o \in sd_bus_send_to(msg[Target(ref)], d) :
            /\ msg' = [msg EXCEPT ![Target(ref)] = o.msg]
            /\ lastOp' = Op("send_to_no_reply", Target(ref), o.status, send_to_no_reply_result(o.status))
        /\ UNCHANGED <<busVars, raw, cursors, cbVars>>

\* MessageRef::call: the status sd_bus_call returns is dropped; the result is
\* e.into_result().map(|_| Message::take_ptr(r)), r being uninitialized()
\* unless the runtime wrote the reply pointer.
call_result(o) == into_result(o.slot)

\* The pointers r may hold when the runtime did not write it: any message the
\* runtime allocated, or a pointer to none.
Uninitialized == {m \in Msgs : msg[m].alloc # "none"} \cup {Wild}

call ==
    /\ HasFreeHandle
    /\ \E ref \in Refs :
        /\ Usable(ref)
        /\ \E o \in sd_bus_call(msg[Target(ref)]) :
            /\ o.reply => HasFreeMsg
            /\ \E r \in (IF o.reply THEN {FreeMsg} ELSE Uninitialized) :
                /\ msg' = IF o.reply
                          THEN [msg EXCEPT ![Target(ref)] = o.msg,
                                           ![r] = Message_take_ptr(NewMsg(TRUE, "none", ReceivedBody))]
                          ELSE [msg EXCEPT ![Target(ref)] = o.msg]
                /\ raw' = IF call_result(o) = "Ok" THEN [raw EXCEPT ![FreeHandle] = r] ELSE raw
                /\ lastOp' = [Op("call", Target(ref), o.status, call_result(o)) EXCEPT
                                 !.reply = IF call_result(o) = "Ok" THEN r ELSE 0]
        /\ UNCHANGED <<busVars, cursors, cbVars>>

\* sd_bus_call_async: like sd_bus_send, and on success the runtime keeps the
\* callback and its userdata pointer until the reply is dispatched.
\* MessageRef::call_async: sd_try!(sd_bus_call_async(.., Some(f), callback as *mut _, usec)); Ok(()).
call_async_result(status) == ffi_result(status)

call_async ==
    /\ closure = "alive" /\ reg = "none" /\ inCb = 0
    /\ \E ref \in Refs :
        /\ Usable(ref)
        /\ \E o \in sd_bus_send(msg[Target(ref)]) :
            /\ msg' = [msg EXCEPT ![Target(ref)] = o.msg]
            /\ reg' = IF o.status < 0 THEN reg ELSE "async"
            /\ lastOp' = Op("call_async", Target(ref), o.status, call_async_result(o.status))
        /\ UNCHANGED <<busVars, raw, cursors, closure, inCb>>

\* ------------------------------------------------- cursors
\* MessageRef::iter: sd_try!(sd_bus_message_peek_type(self, NULL, NULL));
\* Ok(MessageIter { raw: self.as_mut_ptr(), life: PhantomData }).
\* The same without sd_try!: the status is not looked at.
iter_unchecked(status) == "Ok"

iter_result(status) == ffi_result(status)

iter ==
    \E ref \in Refs :
        /\ Usable(ref)
        /\ \E o \in sd_bus_message_peek_type(msg[Target(ref)]) :
            /\ cursors' = IF iter_result(o.status) = "Ok" THEN cursors \cup {ref} ELSE cursors
            /\ lastOp' = Op("iter", Target(ref), o.status, iter_result(o.status))
        /\ UNCHANGED <<busVars, msg, raw, cbVars>>

\* The MessageIter goes out of scope and its borrow of the ref ends.
MessageIter_drop ==
    \E ref \in cursors :
        /\ cursors' = cursors \ {ref}
        /\ lastOp' = Op("MessageIter::drop", Target(ref), 0, "none")
        /\ UNCHANGED <<busVars, msg, raw, cbVars>>

\* MessageIter::read_basic_raw: match ::ffi_result(sd_bus_message_read_basic(..))
\* { Ok(1) => Ok(Some(cons(v))), Ok(_) => Ok(None), Err(e) => Err(e) }.
\* The same with a failed read taken for the end of the values.
read_basic_raw_lenient(status) == IF status = 1 THEN "Some" ELSE "None"

read_basic_raw_result(status) ==
    IF ffi_result(status) = "Err" THEN "Err"
    ELSE IF status = 1 THEN "Some" ELSE "None"

\* cons(v): v is the R the runtime wrote through the pointer.
\* The same with v read as a single byte.
read_basic_raw_narrow(t, bytes) == [type |-> t, v |-> bytes[1]]

read_basic_raw_value(t, bytes) == [type |-> t, v |-> Decode(t, bytes)]

\* MessageIter::next::<V>: V::from_message(self), which for a primitive V is
\* read_basic_raw(V::dbus_type(), |x| x).
read_basic_raw ==
    \E ref \in cursors, t \in {v.type : v \in BasicValues} :
        /\ Target(ref) \in Msgs
        /\ msg[Target(ref)].alloc = "live"
        /\ \E o \in sd_bus_message_read_basic(msg[Target(ref)], t) :
            LET res == read_basic_raw_result(o.status)
                out == IF res = "Some" THEN <<read_basic_raw_value(t, o.v)>> ELSE <<>>
            IN  /\ msg' = [msg EXCEPT ![Target(ref)] = o.msg]
                /\ got' = got \o out
                /\ lastOp' = [Op("read_basic_raw", Target(ref), o.status, res)
                                 EXCEPT !.val = out, !.arg = t]
        /\ UNCHANGED <<busVars, raw, cursors, cbVars, appended>>

\* MessageIter::peek_type: try!(::ffi_result(sd_bus_message_peek_type(.., &mut t, &mut cont)));
\* Ok((t, if cont.is_null() { "" } else { cont as str })).
peek_type_result(status) == ffi_result(status)

\* The same with the pointer passed on as it came.
peek_type_contents_raw(cont) == cont

peek_type_contents(cont) == IF cont = "NULL" THEN "" ELSE cont

peek_type ==
    \E ref \in cursors :
        /\ Target(ref) \in Msgs
        /\ msg[Target(ref)].alloc = "live"
        /\ \E o \in sd_bus_message_peek_type(msg[Target(ref)]) :
            lastOp' = [Op("peek_type", Target(ref), o.status, peek_type_result(o.status))
                         EXCEPT !.val = IF peek_type_result(o.status) = "Ok"
                                        THEN <<o.type, peek_type_contents(o.contents)>>
                                        ELSE <<>>]
        /\ UNCHANGED <<busVars, msg, raw, cursors, cbVars, appended, got>>

\* ------------------------------------------------- callbacks
\* BusRef::add_object: sd_try!(sd_bus_add_object(.., Some(f), cb as *mut _)); Ok(()).
add_object ==
    /\ \E b \in busHandles : TRUE
    /\ closure = "alive" /\ reg = "none" /\ inCb = 0
    /\ \E status \in {-1, 0} :
        /\ reg' = IF status < 0 THEN reg ELSE "object"
        /\ lastOp' = Op("add_object", 0, status, ffi_result(status))
    /\ UNCHANGED <<busVars, msg, raw, cursors, closure, inCb>>

\* The closure, which the registering call only borrowed, goes out of scope.
closure_drop ==
    /\ closure = "alive" /\ inCb = 0
    /\ closure' = "dropped"
    /\ lastOp' = Op("closure::drop", 0, 0, "none")
    /\ UNCHANGED <<busVars, msg, raw, cursors, reg, inCb>>

\* The runtime received a message for the registered callback and calls
\* raw_message_handler with it and the userdata pointer it kept:
\* m(MessageRef::from_mut_ptr(msg)).  A received message is sealed; the
\* runtime holds the reference to it while the callback runs.
dispatch ==
    /\ reg # "none" /\ inCb = 0
    /\ HasFreeMsg
    /\ msg' = [msg EXCEPT ![FreeMsg] = [NewMsg(TRUE, "none", ReceivedBody) EXCEPT !.rtRefs = 1]]
    /\ inCb' = FreeMsg
    /\ lastOp' = Op(IF closure = "alive" THEN "dispatch" ELSE "dispatch_dangling", FreeMsg, 0, "none")
    /\ UNCHANGED <<busVars, raw, cursors, closure, reg>>

\* raw_message_handler returns: Err(e) => { e.move_into(ret_error); 0 },
\* Ok(_) => 0.  The runtime lets go of the message; the callback of an
\* asynchronous call has had its one reply.
raw_message_handler_return ==
    /\ inCb # 0
    /\ 0 \notin cursors
    /\ \E e \in {"Ok", "Err"} :
        lastOp' = Op("raw_message_handler", inCb, 0, e)
    /\ msg' = [msg EXCEPT ![inCb] = sd_bus_message_unref([@ EXCEPT !.rtRefs = @ - 1])]
    /\ inCb' = 0
    /\ reg' = IF reg = "async" THEN "none" ELSE reg
    /\ UNCHANGED <<busVars, raw, cursors, closure>>

\* A run is MaxOps operations long.
Tick == ops < MaxOps /\ ops' = ops + 1 /\ UNCHANGED <<appended, got, input, ret_error, frees, journal>>

\* The life of the connection's handles.
NextBus ==
    \/ Tick /\ Bus_default
    \/ Tick /\ Bus_clone
    \/ Tick /\ Bus_drop
    \/ Tick /\ Bus_borrow
    \/ Tick /\ BusRef_release
    \/ Tick /\ BusRef_to_owned

SpecBus == Init /\ [][NextBus]_vars

\* The program after Bus::default() returned its first handle: the messages
\* of that connection.
Connected ==
    /\ bus = [refcnt |-> 1, released |-> 0]
    /\ busHandles = {1}
    /\ busView = 0
    /\ msg = [m \in Msgs |-> NoMsg]
    /\ raw = [h \in Handles |-> 0]
    /\ cursors = {}
    /\ closure = "alive"
    /\ reg = "none"
    /\ inCb = 0
    /\ lastOp = Op("Bus::default", 0, 0, "Ok")
    /\ ops = 0
    /\ appended = <<>>
    /\ got = <<>>
    /\ input = <<>>
    /\ ret_error = <<>>
    /\ frees = 0
    /\ journal = <<>>

Next ==
    \/ Tick /\ new_method_call
    \/ Tick /\ new_signal
    \/ Tick /\ Message_clone
    \/ Tick /\ MessageRef_to_owned
    \/ Tick /\ Message_drop
    \/ Tick /\ set_destination
    \/ Tick /\ set_auto_start
    \/ Tick /\ append
    \/ Tick /\ send
    \/ Tick /\ send_no_reply
    \/ Tick /\ send_to
    \/ Tick /\ send_to_no_reply
    \/ Tick /\ call
    \/ Tick /\ call_async
    \/ Tick /\ iter
    \/ Tick /\ MessageIter_drop
    \/ Tick /\ add_object
    \/ Tick /\ closure_drop
    \/ Tick /\ dispatch
    \/ Tick /\ raw_message_handler_return

Spec == Connected /\ [][Next]_vars

\* ------------------------------------------------- writing and reading a body
\* The program holding one message through one handle: either a method call
\* new_method_call() just returned, or a message received from the bus.
InitCursor ==
    /\ bus = [refcnt |-> 1, released |-> 0]
    /\ busHandles = {1}
    /\ busView = 0
    /\ \E r \in {Message_take_ptr(NewMsg(FALSE, "dA", <<>>)), Message_take_ptr(NewMsg(TRUE, "none", ReceivedBody))} :
           msg = [m \in Msgs |-> IF m = 1 THEN r ELSE NoMsg]
    /\ raw = [h \in Handles |-> IF h = 1 THEN 1 ELSE 0]
    /\ cursors = {}
    /\ closure = "alive"
    /\ reg = "none"
    /\ inCb = 0
    /\ lastOp = Op("new", 1, 0, "Ok")
    /\ ops = 0
    /\ appended = <<>>
    /\ got = <<>>
    /\ input = <<>>
    /\ ret_error = <<>>
    /\ frees = 0
    /\ journal = <<>>

CursorTick == ops < MaxCursorOps /\ ops' = ops + 1 /\ UNCHANGED <<input, ret_error, frees, journal>>

\* What append() accepted is what the caller wrote.
Written == appended' = IF lastOp'.ret = "Ok" THEN appended \o lastOp'.val ELSE appended

NextCursor ==
    \/ CursorTick /\ append /\ Written /\ UNCHANGED got
    \/ CursorTick /\ send /\ UNCHANGED <<appended, got>>
    \/ CursorTick /\ iter /\ UNCHANGED <<appended, got>>
    \/ CursorTick /\ MessageIter_drop /\ UNCHANGED <<appended, got>>
    \/ CursorTick /\ read_basic_raw
    \/ CursorTick /\ peek_type

SpecCursor == InitCursor /\ [][NextCursor]_vars

\* ------------------------------------------------- validated names
\* Bytes.
NUL    == 0
HYPHEN == 45
DOT    == 46
SLASH  == 47
COLON  == 58
USCORE == 95

\* b'A'...b'Z' | b'a'...b'z'
IsAlpha(c) == c \in 65..90 \/ c \in 97..122

\* b'0'...b'9'
IsDigit(c) == c \in 48..57

Ok(b) == [ret |-> "Ok", reason |-> "", name |-> b]
Err(reason) == [ret |-> "Err", reason |-> reason, name |-> <<>>]

\* from_bytes_unchecked: transmute(b), the whole slice becomes the name.
from_bytes_unchecked(b) == Ok(b)

\* A pass of a loop that ends in neither return: the loop goes on.
Continue == [ret |-> "continue", reason |-> "", name |-> <<>>]

\* The first of a set of loop indices.
First(I) == CHOOSE i \in I : \A j \in I : i <= j

\* ObjectPath::from_bytes, one pass of the loop over b.windows(2): i is the
\* window, prev = b[i] and c = b[i + 1].
ObjectPath_window(b, i) ==
    LET prev == b[i]
        c == b[i + 1]
    IN  IF c = SLASH
        THEN IF prev = SLASH
             THEN Err("Path must not have 2 '/' next to each other")
             ELSE Continue
        ELSE IF IsAlpha(c) \/ IsDigit(c) \/ c = USCORE
        THEN Continue
        ELSE IF c = NUL
        THEN IF prev = SLASH /\ Len(b) # 2
             THEN Err("Path must not end in '/' unless it is the root path")
             ELSE from_bytes_unchecked(b)
        ELSE Err("Invalid character in path, only '[A-Z][a-z][0-9]_/' allowed")

\* The loop returns in its first pass that does not go on, and falls through
\* to the last return when every pass goes on.
ObjectPath_from_bytes(b) ==
    IF Len(b) < 1 THEN Err("Path must have at least 1 character ('/')")
    ELSE IF b[1] # SLASH THEN Err("Path must begin with '/'")
    ELSE LET returns == {i \in 1..(Len(b) - 1) : ObjectPath_window(b, i) # Continue}
         IN  IF returns # {}
             THEN ObjectPath_window(b, First(returns))
             ELSE Err("Path must be terminated in a '\\0' byte (for use by sd-bus)")

\* InterfaceName::from_bytes, one pass of the loop over b.windows(2).
InterfaceName_window(b, i, periods) ==
    LET prev == b[i]
        c == b[i + 1]
    IN  IF c = DOT
        THEN IF prev = DOT
             THEN Err("Name must not have 2 '.' next to each other")
             ELSE Continue
        ELSE IF IsAlpha(c) \/ c = USCORE
        THEN Continue
        ELSE IF IsDigit(c)
        THEN IF prev = DOT
             THEN Err("Name element must not start with '[0-9]'")
             ELSE Continue
        ELSE IF c = NUL
        THEN IF prev = DOT /\ Len(b) # 1
             THEN Err("Name must not end in '.'")
             ELSE IF periods < 1
             THEN Err("Name must have at least 2 elements")
             ELSE from_bytes_unchecked(b)
        ELSE Err("Invalid character in interface name, only '[A-Z][a-z][0-9]_\\.' allowed")

\* periods += 1 in every pass before window i whose c is '.'.
periods_before(b, i) == Cardinality({j \in 1..(i - 1) : b[j + 1] = DOT})

InterfaceName_from_bytes(b) ==
    IF Len(b) < 1 THEN Err("Name must have more than 0 characters")
    ELSE IF b[1] = DOT THEN Err("Name must not begin with '.'")
    ELSE IF IsAlpha(b[1]) \/ b[1] = USCORE
    THEN LET returns == {i \in 1..(Len(b) - 1) : InterfaceName_window(b, i, 0) # Continue}
         IN  IF returns # {}
             THEN InterfaceName_window(b, First(returns), periods_before(b, First(returns)))
             ELSE Err("Name must be terminated in a '\\0' byte (for use by sd-bus)")
    ELSE Err("Name must only begin with '[A-Z][a-z]_'")

\* BusName::from_bytes, one pass of the loop over b.windows(2).
BusName_window(b, i, periods, is_unique) ==
    LET prev == b[i]
        c == b[i + 1]
    IN  IF c = DOT
        THEN IF prev = DOT \/ prev = COLON
             THEN Err("Elements may not be empty")
             ELSE Continue
        ELSE IF IsAlpha(c) \/ c = USCORE \/ c = HYPHEN
        THEN Continue
        ELSE IF IsDigit(c)
        THEN IF prev = DOT /\ ~is_unique
             THEN Err("Name element must not start with '[0-9]'")
             ELSE Continue
        ELSE IF c = NUL
        THEN IF prev = DOT /\ Len(b) # 1
             THEN Err("Name must not end in '.'")
             ELSE IF periods < 1
             THEN Err("Name must have at least 2 elements")
             ELSE from_bytes_unchecked(b)
        ELSE Err("Invalid character in bus name, only '[A-Z][a-z][0-9]_\\.' allowed")

BusName_windows(b, is_unique) ==
    LET returns == {i \in 1..(Len(b) - 1) : BusName_window(b, i, 0, is_unique) # Continue}
    IN  IF returns # {}
        THEN BusName_window(b, First(returns), periods_before(b, First(returns)), is_unique)
        ELSE Err("Name must be terminated in a '\\0' byte (for use by sd-bus)")

BusName_from_bytes(b) ==
    IF Len(b) < 1 THEN Err("Name must have more than 0 characters")
    ELSE IF Len(b) > 256 THEN Err("Must be shorter than 255 characters")
    ELSE IF b[1] = DOT THEN Err("Name must not begin with '.'")
    ELSE IF IsAlpha(b[1]) \/ b[1] = USCORE \/ b[1] = HYPHEN THEN BusName_windows(b, FALSE)
    ELSE IF b[1] = COLON THEN BusName_windows(b, TRUE)
    ELSE Err("Name must only begin with '[A-Z][a-z]_'")

\* MemberName::from_bytes: the slice ran out before a nul byte was met.
\* The same with the end of the slice taken for the terminator.
MemberName_unterminated_ok(b) == from_bytes_unchecked(b)

MemberName_unterminated(b) ==
    Err("Name must be terminated in a '\\0' byte (for use by sd-bus)")

\* MemberName::from_bytes, one pass of the loop "for c in b": c = b[i].
MemberName_byte(b, i) ==
    LET c == b[i]
    IN  IF IsAlpha(c) \/ IsDigit(c) \/ c = USCORE
        THEN Continue
        ELSE IF c = NUL
        THEN from_bytes_unchecked(b)
        ELSE Err("Invalid character in member name, only '[A-Z][a-z][0-9]_' allowed")

MemberName_from_bytes(b) ==
    IF Len(b) < 2 THEN Err("Name must have more than 0 characters")
    ELSE IF Len(b) > 256 THEN Err("Must be shorter than 255 characters")
    ELSE IF IsAlpha(b[1]) \/ b[1] = USCORE
    THEN LET returns == {i \in 1..Len(b) : MemberName_byte(b, i) # Continue}
         IN  IF returns # {}
             THEN MemberName_byte(b, First(returns))
             ELSE MemberName_unterminated(b)
    ELSE Err("Must begin with '[A-Z][a-z]_'")

\* ------------------------------------------------- validating byte slices
\* The slices tried: every slice of up to MaxLen bytes over Alphabet, the
\* slices of the documentation and the tests, slices around the bytes that
\* bound the character ranges, and slices around the longest name.
MaxLen == 4
MaxNameLen == 255

Alphabet == {NUL, HYPHEN, DOT, SLASH, 48, COLON, USCORE, 97}

Short == UNION {[1..n -> Alphabet] : n \in 0..MaxLen}

Examples ==
    {<<47, 97, 47, 47, 98, 0>>,
     <<58, 97, 46, 49, 0>>,
     <<97, 46, 98, 46, 51, 0>>,
     <<49, 97, 46, 98, 0>>,
     <<97, 46, 46, 98, 0>>,
     <<97, 46, 98, 45, 99, 46, 97, 48, 0>>,
     <<97, 46, 98, 45, 99, 46, 48, 97, 0>>,
     <<58, 97, 46, 98, 45, 99, 46, 49, 0>>,
     <<58, 97, 46, 98, 45, 99, 0>>,
     <<97, 98, 99, 49, 51, 0>>,
     <<97, 98, 99, 46, 49, 51, 0>>,
     <<49, 50, 51, 52, 97, 98, 99, 0>>,
     <<97, 46, 98>>,
     <<97, 98, 99>>,
     <<97, 46, 98, 0>>,
     <<97, 46, 98, 63, 0>>,
     <<97, 46, 98, 46, 99, 63, 0>>,
     <<49, 50, 0>>,
     <<47, 104, 101, 108, 108, 111, 47, 103, 111, 111, 100, 98, 121, 101, 47, 48, 49, 51, 47, 52, 47, 72, 65, 0>>,
     <<47, 104, 101, 108, 108, 111, 47, 103, 111, 111, 100, 98, 121, 101, 47, 48, 49, 51, 47, 52, 63, 47, 72, 65, 0>>,
     <<65, 46, 90, 46, 120, 97, 114, 46, 121, 102, 100, 115, 46, 100, 51, 52, 57, 48, 0>>,
     <<97, 46, 97, 0, 97>>,
     <<97, 46, 98, 0, 0>>,
     <<47, 97, 47, 98, 0, 47>>}

\* '@' 'A' 'Z' '[' '`' 'a' 'z' '{' '/' '0' '9' ':'
EdgeBytes == {64, 65, 90, 91, 96, 97, 122, 123, 47, 48, 57, 58}

Edges ==
    {<<SLASH, c, NUL>> : c \in EdgeBytes}
    \cup {<<c, DOT, c, NUL>> : c \in EdgeBytes}
    \cup {<<97, c, DOT, 97, c, NUL>> : c \in EdgeBytes}
    \cup {<<c, NUL>> : c \in EdgeBytes}
    \cup {<<97, c, NUL>> : c \in EdgeBytes}

Rep(c, n) == [i \in 1..n |-> c]

Long ==
    {Rep(97, n) \o t : n \in {MaxNameLen - 1, MaxNameLen, MaxNameLen + 1}, t \in {<<>>, <<NUL>>}}
    \cup {<<p, DOT>> \o Rep(97, n) \o t : p \in {97, COLON}, n \in {MaxNameLen - 3, MaxNameLen - 2, MaxNameLen - 1},
                                          t \in {<<>>, <<NUL>>}}

Inputs == Short \cup Examples \cup Edges \cup Long

InitNames ==
    /\ bus = [refcnt |-> 0, released |-> 0]
    /\ busHandles = {}
    /\ busView = 0
    /\ msg = [m \in Msgs |-> NoMsg]
    /\ raw = [h \in Handles |-> 0]
    /\ cursors = {}
    /\ closure = "alive"
    /\ reg = "none"
    /\ inCb = 0
    /\ lastOp = Op("input", 0, 0, "none")
    /\ ops = 0
    /\ appended = <<>>
    /\ got = <<>>
    /\ input \in Inputs
    /\ ret_error = <<>>
    /\ frees = 0
    /\ journal = <<>>

\* What a from_bytes call returned: Ok(name) or Err(reason).
Returned(name, res) ==
    /\ lastOp' = [Op(name, 0, 0, res.ret) EXCEPT !.val = <<res.name>>, !.arg = res.reason]
    /\ UNCHANGED <<busVars, msg, raw, cursors, cbVars, ops, appended, got, input, ret_error, frees, journal>>

NextNames ==
    \/ Returned("ObjectPath::from_bytes", ObjectPath_from_bytes(input))
    \/ Returned("InterfaceName::from_bytes", InterfaceName_from_bytes(input))
    \/ Returned("BusName::from_bytes", BusName_from_bytes(input))
    \/ Returned("MemberName::from_bytes", MemberName_from_bytes(input))

SpecNames == InitNames /\ [][NextNames]_vars

\* ------------------------------------------------- the claims
MutationOps == {"set_destination", "set_auto_start", "append"}
SendOps == {"send", "send_no_reply", "send_to", "send_to_no_reply", "call", "call_async"}

\* C1: a mutation (append, set_destination, set_auto_start) attempted on a
\* sealed message returns an error and leaves every message, the target's
\* body, destination, auto-start flag and state included, as it was.
C1_SealedMutationRejected ==
    [][(lastOp'.op \in MutationOps /\ msg[lastOp'.m].sealed)
        => (lastOp'.ret = "Err" /\ msg' = msg)]_vars

\* C1 witness: a mutation was refused on a message sealed by transmission.
C1_Witness ==
    /\ lastOp.op \in MutationOps
    /\ lastOp.ret = "Err"
    /\ msg[lastOp.m].sealed
    /\ msg[lastOp.m].sent > 0

C4_ReleasedOnceByLastDrop ==
    [][/\ (bus'.released # bus.released
            => lastOp'.op = "Bus::drop" /\ busHandles' = {} /\ bus'.released = 1)
       /\ (lastOp'.op = "Bus::drop" /\ busHandles' = {} => bus'.released = 1)
       /\ (busHandles' # {} => bus'.released = 0 /\ bus'.refcnt >= 1)]_vars

\* C4 witness: a handle was duplicated and every handle dropped; the
\* connection has been released.
C4_Witness ==
    /\ ops >= 4
    /\ busHandles = {}
    /\ bus.released = 1

\* C5 as claimed: every live owning Message handle holds a live message, and
\* the references this layer holds on a message (its count less the
\* runtime's own reference during a dispatch) number its live owning handles.
C5_Original_CountEqualsHandles ==
    /\ \A h \in Handles : raw[h] # 0 => raw[h] \in Msgs /\ msg[raw[h]].alloc = "live"
    /\ \A m \in Msgs : msg[m].alloc = "live"
          => msg[m].refcnt - msg[m].rtRefs = Cardinality({h \in Handles : raw[h] = m})

\* C6 as claimed: borrowing leaves the count alone, to_owned raises it by
\* one, and while an owning handle of a resource is alive the resource its
\* view points at has not been released.
C6_Original_ViewsValid ==
    [][/\ (lastOp'.op = "Bus::borrow" => bus' = bus)
       /\ (lastOp'.op = "BusRef::to_owned" => bus'.refcnt = bus.refcnt + 1)
       /\ (lastOp'.op = "MessageRef::to_owned"
            => msg'[lastOp'.m].refcnt = msg[lastOp'.m].refcnt + 1)
       /\ (busHandles' # {} => bus'.released = 0)
       /\ (\A h \in Handles : raw'[h] \in Msgs => msg'[raw'[h]].alloc = "live")]_vars

\* C7 as claimed: no message has more than one live cursor.
C7_Original_OneCursor ==
    \A m \in Msgs : Cardinality({ref \in cursors : Target(ref) = m}) <= 1

\* C8: iter() on a Mutable message returns an error and creates no cursor,
\* and every live cursor is on a Sealed message.
C8_IterNeedsSealed ==
    [][/\ (lastOp'.op = "iter" /\ ~msg[lastOp'.m].sealed
            => lastOp'.ret = "Err" /\ cursors' = cursors)
       /\ (\A ref \in cursors' : msg'[Target(ref)'].sealed)]_vars

\* C8 witness: iter() was refused on a Mutable message and no cursor exists.
C8_Witness ==
    /\ lastOp.op = "iter"
    /\ lastOp.ret = "Err"
    /\ ~msg[lastOp.m].sealed
    /\ cursors = {}

\* C9 as claimed: the Message a call() returned in Ok is a live Sealed
\* message, and so is the message a callback is running on.
C9_Original_ReceivedSealed ==
    /\ (lastOp.op = "call" /\ lastOp.ret = "Ok"
         => lastOp.reply \in Msgs /\ msg[lastOp.reply].alloc = "live" /\ msg[lastOp.reply].sealed)
    /\ (inCb # 0 => msg[inCb].alloc = "live" /\ msg[inCb].sealed)

C13_PeekDoesNotConsume ==
    [][lastOp'.op = "peek_type"
        => LET r == msg[lastOp'.m] IN
           /\ msg' = msg
           /\ got' = got
           /\ (lastOp'.ret = "Ok" /\ r.rindex < Len(r.body)
                 => lastOp'.val = <<r.body[r.rindex + 1].type,
                                    IF r.body[r.rindex + 1].type = "a" THEN "y" ELSE "">>)]_vars

\* C13 witness: a second peek in a row reported the array that follows the
\* byte already read from a received message.
C13_Witness ==
    /\ lastOp.op = "peek_type"
    /\ lastOp.ret = "Ok"
    /\ lastOp.val = <<"a", "y">>
    /\ Len(got) = 1
    /\ ops >= 4

\* The grammars of the four kinds of name, over the bytes n of a name without
\* its terminator.
NameOf(s) == SubSeq(s, 1, Len(s) - 1)

NulTerminated(s) == Len(s) >= 1 /\ s[Len(s)] = NUL

ElementStarts(n) == {i \in 1..Len(n) : i = 1 \/ n[i - 1] = DOT}

Dotted(n) ==
    /\ Len(n) >= 1
    /\ n[1] # DOT
    /\ n[Len(n)] # DOT
    /\ \A i \in 1..(Len(n) - 1) : ~(n[i] = DOT /\ n[i + 1] = DOT)
    /\ \E i \in 1..Len(n) : n[i] = DOT

ObjectPathGrammar(n) ==
    /\ Len(n) >= 1
    /\ n[1] = SLASH
    /\ \A i \in 1..Len(n) : n[i] = SLASH \/ IsAlpha(n[i]) \/ IsDigit(n[i]) \/ n[i] = USCORE
    /\ \A i \in 1..(Len(n) - 1) : ~(n[i] = SLASH /\ n[i + 1] = SLASH)
    /\ (n[Len(n)] = SLASH => Len(n) = 1)

InterfaceNameGrammar(n) ==
    /\ Dotted(n)
    /\ \A i \in 1..Len(n) : n[i] = DOT \/ IsAlpha(n[i]) \/ IsDigit(n[i]) \/ n[i] = USCORE
    /\ \A i \in ElementStarts(n) : ~IsDigit(n[i])

BusNameGrammar(n) ==
    /\ Len(n) >= 1
    /\ Len(n) <= MaxNameLen
    /\ LET unique == n[1] = COLON
           e == IF unique THEN Tail(n) ELSE n
       IN  /\ Dotted(e)
           /\ \A i \in 1..Len(e) :
                 e[i] = DOT \/ IsAlpha(e[i]) \/ IsDigit(e[i]) \/ e[i] = USCORE \/ e[i] = HYPHEN
           /\ (~unique => \A i \in ElementStarts(e) : ~IsDigit(e[i]))

MemberNameGrammar(n) ==
    /\ Len(n) >= 1
    /\ Len(n) <= MaxNameLen
    /\ \A i \in 1..Len(n) : IsAlpha(n[i]) \/ IsDigit(n[i]) \/ n[i] = USCORE
    /\ ~IsDigit(n[1])

\* C14 as claimed: ObjectPath::from_bytes(s) succeeds exactly when s is a path
\* of the grammar followed by its nul terminator.
C14_Original_ObjectPath ==
    lastOp.op = "ObjectPath::from_bytes"
    => (lastOp.ret = "Ok" <=> NulTerminated(input) /\ ObjectPathGrammar(NameOf(input)))

\* C15 as claimed: InterfaceName::from_bytes(s) succeeds exactly when s is an
\* interface name of the grammar followed by its nul terminator.
C15_Original_InterfaceName ==
    lastOp.op = "InterfaceName::from_bytes"
    => (lastOp.ret = "Ok" <=> NulTerminated(input) /\ InterfaceNameGrammar(NameOf(input)))

\* C16 as claimed: BusName::from_bytes(s) succeeds exactly when s is a bus
\* name of the grammar, of at most 255 bytes, followed by its nul terminator.
C16_Original_BusName ==
    lastOp.op = "BusName::from_bytes"
    => (lastOp.ret = "Ok" <=> NulTerminated(input) /\ BusNameGrammar(NameOf(input)))

\* C17 as claimed: MemberName::from_bytes(s) succeeds exactly when s is a
\* member name of the grammar, of 1 to 255 bytes, followed by its nul
\* terminator.
C17_Original_MemberName ==
    lastOp.op = "MemberName::from_bytes"
    => (lastOp.ret = "Ok" <=> NulTerminated(input) /\ MemberNameGrammar(NameOf(input)))

\* C18: each of the four validators rejects every slice that holds no nul
\* byte.
C18_NoNulRejected ==
    (/\ lastOp.op \in {"ObjectPath::from_bytes", "InterfaceName::from_bytes",
                       "BusName::from_bytes", "MemberName::from_bytes"}
     /\ \A i \in 1..Len(input) : input[i] # NUL)
    => lastOp.ret = "Err"

\* C18 witness: "abc", a member name but for its terminator, was rejected as
\* not terminated.
C18_Witness ==
    /\ input = <<97, 98, 99>>
    /\ lastOp.op = "MemberName::from_bytes"
    /\ lastOp.ret = "Err"
    /\ lastOp.arg = "Name must be terminated in a '\\0' byte (for use by sd-bus)"

\* ---------------------------------------------------------------------------
\* Errors: the error slot of the runtime (RawError) and the long-lived Error.
\* A C string is the tuple of the bytes at its address, terminator included,
\* and NULL the null pointer; an Option is None or Some(x).
\* ---------------------------------------------------------------------------
MaxText == 2

NULL == <<>>

None == <<>>

Some(x) == <<x>>

TextBytes == {32, COLON, 97}

Texts == UNION {[1..n -> TextBytes] : n \in 0..MaxText}

\* The values of type &Utf8CStr: text with one nul, the last byte.
Utf8CStrs == {t \o <<NUL>> : t \in Texts}

Utf8CStr_len(x) == Len(x) - 1

Utf8CStr_from_raw_parts(p, l) == SubSeq(p, 1, l)

Utf8CStr_as_ref(x) == SubSeq(x, 1, Len(x) - 1)

strlen(p) == (CHOOSE i \in 1..Len(p) : p[i] = NUL /\ \A j \in 1..(i - 1) : p[j] # NUL) - 1

strdup(p) == SubSeq(p, 1, strlen(p) + 1)

CStr_to_bytes(p) == SubSeq(p, 1, strlen(p))

CStr_to_bytes_with_nul(p) == SubSeq(p, 1, strlen(p) + 1)

\* The runtime copies the name and the message into a slot that is unset, and
\* leaves a slot that is set as it is.
sd_bus_error_set(e, name, message) ==
    IF name = NULL \/ e.name # NULL
    THEN e
    ELSE [name |-> strdup(name),
          message |-> IF message = NULL THEN NULL ELSE strdup(message),
          need_free |-> 1]

RawError_default == [name |-> NULL, message |-> NULL, need_free |-> 0]

RawError_set(self, name, message) ==
    sd_bus_error_set(self, name, IF message = None THEN NULL ELSE message[1])

RawError_with(name, message) == RawError_set(RawError_default, name, message)

RawError_is_set(self) == self.name # NULL

from_raw_short(r) ==
    [raw |-> r,
     name_len |-> Len(CStr_to_bytes(r.name)),
     message_len |-> IF r.message = NULL THEN 0 ELSE Len(CStr_to_bytes(r.message))]

Error_from_raw(r) ==
    [raw |-> r,
     name_len |-> Len(CStr_to_bytes_with_nul(r.name)),
     message_len |-> IF r.message = NULL THEN 0 ELSE Len(CStr_to_bytes_with_nul(r.message))]

new_short(name, message) ==
    [raw |-> RawError_with(name, message),
     name_len |-> Utf8CStr_len(name),
     message_len |-> IF message = None THEN 0 ELSE Utf8CStr_len(message[1])]

Error_new(name, message) ==
    [raw |-> RawError_with(name, message),
     name_len |-> Utf8CStr_len(name) + 1,
     message_len |-> IF message = None THEN 0 ELSE Utf8CStr_len(message[1]) + 1]

Error_name(self) == Utf8CStr_from_raw_parts(self.raw.name, self.name_len)

Error_message(self) ==
    IF self.raw.message = NULL
    THEN None
    ELSE Some(Utf8CStr_from_raw_parts(self.raw.message, self.message_len))

\* "Dbus Error: " and ": ", the literal parts of the two format strings.
DbusError == <<68, 98, 117, 115, 32, 69, 114, 114, 111, 114, 58, 32>>

Sep == <<58, 32>>

Error_fmt(self) ==
    IF Error_message(self) # None
    THEN DbusError \o Utf8CStr_as_ref(Error_name(self)) \o Sep
             \o Utf8CStr_as_ref(Error_message(self)[1])
    ELSE DbusError \o Utf8CStr_as_ref(Error_name(self))

RawError_into_result(self) ==
    IF RawError_is_set(self)
    THEN [ret |-> "Err", err |-> <<Error_from_raw(self)>>]
    ELSE [ret |-> "Ok", err |-> <<>>]

\* One name and one optional message; -got- holds the Error once there is
\* one, lastOp.arg how it was made, lastOp.val what the last call was given
\* (into_result) or returned (the accessors).
ErrorInputs == [name : Utf8CStrs, message : {None} \cup {Some(m) : m \in Utf8CStrs}]

InitError ==
    /\ bus = [refcnt |-> 0, released |-> 0]
    /\ busHandles = {}
    /\ busView = 0
    /\ msg = [m \in Msgs |-> NoMsg]
    /\ raw = [h \in Handles |-> 0]
    /\ cursors = {}
    /\ closure = "alive"
    /\ reg = "none"
    /\ inCb = 0
    /\ lastOp = Op("input", 0, 0, "none")
    /\ ops = 0
    /\ appended = <<>>
    /\ got = <<>>
    /\ input \in ErrorInputs
    /\ ret_error = <<>>
    /\ frees = 0
    /\ journal = <<>>

ErrorUnchanged ==
    UNCHANGED <<busVars, msg, raw, cursors, cbVars, ops, appended, input, ret_error, frees,
                journal>>

new ==
    /\ got = <<>>
    /\ got' = <<Error_new(input.name, input.message)>>
    /\ lastOp' = [Op("Error::new", 0, 0, "none") EXCEPT !.arg = "Error::new"]
    /\ ErrorUnchanged

\* The slot a native call leaves behind: unset, or set by the runtime to the
\* name and the message.
Slots == {RawError_default, sd_bus_error_set(RawError_default, input.name,
              IF input.message = None THEN NULL ELSE input.message[1])}

IntoResult ==
    /\ got = <<>>
    /\ lastOp.op = "input"
    /\ \E e \in Slots :
         /\ got' = RawError_into_result(e).err
         /\ lastOp' = [Op("RawError::into_result", 0, 0, RawError_into_result(e).ret)
                          EXCEPT !.val = <<e>>, !.arg = "Error::from_raw"]
    /\ ErrorUnchanged

Accessed(name, v) ==
    /\ got # <<>>
    /\ got' = got
    /\ lastOp' = [Op(name, 0, 0, "none") EXCEPT !.val = <<v>>, !.arg = lastOp.arg]
    /\ ErrorUnchanged

name == Accessed("Error::name", Error_name(got[1]))

message == Accessed("Error::message", Error_message(got[1]))

fmt == Accessed("Error::fmt", Error_fmt(got[1]))

NextError ==
    \/ new
    \/ IntoResult
    \/ name
    \/ message
    \/ fmt

SpecError == InitError /\ [][NextError]_vars

\* C19: an Error made by Error::new(n, m) gives n back as its name and m back
\* as its message (None when it was made without one), and displays as
\* "Dbus Error: n" without a message and as "Dbus Error: n: m" with one.
C19_ErrorNew ==
    lastOp.arg = "Error::new" =>
       /\ lastOp.op = "Error::name" => lastOp.val = <<input.name>>
       /\ lastOp.op = "Error::message" => lastOp.val = <<input.message>>
       /\ (lastOp.op = "Error::fmt" /\ input.message = None) =>
              lastOp.val = <<DbusError \o NameOf(input.name)>>
       /\ (lastOp.op = "Error::fmt" /\ input.message # None) =>
              lastOp.val = <<DbusError \o NameOf(input.name) \o Sep \o NameOf(input.message[1])>>

\* C19 witness: Error::new("a", Some(": ")) was displayed as "Dbus Error: a: : ".
C19_Witness ==
    /\ input = [name |-> <<97, 0>>, message |-> Some(<<58, 32, 0>>)]
    /\ lastOp.arg = "Error::new"
    /\ lastOp.op = "Error::fmt"
    /\ lastOp.val = <<DbusError \o <<97, 58, 32, 58, 32>> >>

\* C20: into_result gives Ok(()) exactly when the name pointer of the slot is
\* null; otherwise it gives Err of an Error that keeps the slot and whose
\* cached lengths are the lengths in bytes, terminator included, of the name
\* and of the message (0 without a message), the lengths Error::new caches for
\* that name and message.
C20_IntoResult ==
    lastOp.op = "RawError::into_result" =>
       /\ lastOp.ret = "Ok" <=> lastOp.val[1].name = NULL
       /\ lastOp.ret = "Ok" => got = <<>>
       /\ lastOp.ret # "Ok" =>
            /\ lastOp.ret = "Err"
            /\ Len(got) = 1
            /\ got[1].raw = lastOp.val[1]
            /\ got[1].name_len = Len(input.name)
            /\ got[1].message_len = (IF input.message = None THEN 0 ELSE Len(input.message[1]))
            /\ got[1].name_len = Error_new(input.name, input.message).name_len
            /\ got[1].message_len = Error_new(input.name, input.message).message_len

\* C20 witness: a slot set to the name "a" without a message became
\* Err(Error) with the lengths 2 and 0.
C20_Witness ==
    /\ input = [name |-> <<97, 0>>, message |-> None]
    /\ lastOp.op = "RawError::into_result"
    /\ lastOp.ret = "Err"
    /\ got[1].name_len = 2
    /\ got[1].message_len = 0

\* C21 as claimed: when the runtime reports a negative status for a blocking
\* call, call() returns Err, whether or not the error slot was set; and
\* call() returns Ok only when the runtime succeeded and the reply is a
\* message it produced.
C21_Original_CallReportsFailure ==
    lastOp.op = "call" =>
       /\ lastOp.status < 0 => lastOp.ret = "Err"
       /\ lastOp.ret = "Ok" =>
            /\ lastOp.status >= 0
            /\ lastOp.reply \in Msgs
            /\ msg[lastOp.reply].alloc = "live"

\* ---------------------------------------------------------------------------
\* The trampoline and the error a callback returns.
\* ---------------------------------------------------------------------------
\* sd_bus_error_free: frees the name and the message when the slot owns them
\* and resets the slot; -freed- counts the buffers' release.
sd_bus_error_free(e) ==
    [slot |-> RawError_default, freed |-> IF e.need_free = 1 THEN 1 ELSE 0]

\* An error of the runtime's own table: static strings, not to be freed.
sd_bus_error_const(n, m) ==
    [name |-> n, message |-> m, need_free |-> 0]

\* impl Drop for RawError.
RawError_drop(self) == sd_bus_error_free(self).freed

\* The same move with the destructor of self left to run.
move_into_dropping(self, dest) ==
    [dest |-> self.raw, freed |-> RawError_drop(self.raw)]

\* Error::move_into: x = ptr::read(&self.raw.inner); forget(self); *dest = x.
Error_move_into(self, dest) ==
    [dest |-> self.raw, freed |-> 0]

\* The status raw_message_handler hands back: 0 in both arms of the match.
raw_message_handler_status(e) == IF e = "Err" THEN 0 ELSE 0

\* The runtime is about to call the trampoline with an unset slot.
InitHandler ==
    /\ bus = [refcnt |-> 0, released |-> 0]
    /\ busHandles = {}
    /\ busView = 0
    /\ msg = [m \in Msgs |-> NoMsg]
    /\ raw = [h \in Handles |-> 0]
    /\ cursors = {}
    /\ closure = "alive"
    /\ reg = "object"
    /\ inCb = 0
    /\ lastOp = Op("input", 0, 0, "none")
    /\ ops = 0
    /\ appended = <<>>
    /\ got = <<>>
    /\ input \in ErrorInputs
    /\ ret_error = RawError_default
    /\ frees = 0
    /\ journal = <<>>

HandlerUnchanged ==
    UNCHANGED <<busVars, msg, raw, cursors, cbVars, ops, appended, input, journal>>

\* The Errors the callback may return: one it made with Error::new, or one a
\* failed call of its own gave it (into_result), owning its strings or not.
CallbackErrors ==
    {Error_new(input.name, input.message),
     Error_from_raw(RawError_with(input.name, input.message)),
     Error_from_raw(sd_bus_error_const(input.name,
                        IF input.message = None THEN NULL ELSE input.message[1]))}

\* m(MessageRef::from_mut_ptr(msg)) returns Err(e).
callback_Err ==
    /\ lastOp.op = "input"
    /\ \E e \in CallbackErrors : got' = <<e>>
    /\ lastOp' = Op("callback", 0, 0, "Err")
    /\ UNCHANGED <<ret_error, frees>>
    /\ HandlerUnchanged

\* m(MessageRef::from_mut_ptr(msg)) returns Ok(()).
callback_Ok ==
    /\ lastOp.op = "input"
    /\ got' = <<>>
    /\ lastOp' = Op("callback", 0, 0, "Ok")
    /\ UNCHANGED <<ret_error, frees>>
    /\ HandlerUnchanged

\* match e { Err(e) => { e.move_into(ret_error); 0 }, Ok(_) => 0 }
raw_message_handler ==
    /\ lastOp.op = "callback"
    /\ IF lastOp.ret = "Err"
       THEN /\ ret_error' = Error_move_into(got[1], ret_error).dest
            /\ frees' = frees + Error_move_into(got[1], ret_error).freed
       ELSE UNCHANGED <<ret_error, frees>>
    /\ got' = <<>>
    /\ lastOp' = Op("raw_message_handler", 0, raw_message_handler_status(lastOp.ret), lastOp.ret)
    /\ HandlerUnchanged

\* The runtime has used the slot for its error reply and frees it.
runtime_error_free ==
    /\ lastOp.op = "raw_message_handler"
    /\ ret_error' = sd_bus_error_free(ret_error).slot
    /\ frees' = frees + sd_bus_error_free(ret_error).freed
    /\ lastOp' = Op("sd_bus_error_free", 0, 0, lastOp.ret)
    /\ UNCHANGED got
    /\ HandlerUnchanged

NextHandler ==
    \/ callback_Err
    \/ callback_Ok
    \/ raw_message_handler
    \/ runtime_error_free

SpecHandler == InitHandler /\ [][NextHandler]_vars

C23_Original_ClosureAlive == inCb # 0 => closure = "alive"

\* C24 as claimed: when one of the four validators succeeds on b, the first
\* nul byte of b is its last byte, and b as a whole is a name of the grammar
\* followed by its terminator.
C24_Original_NothingAfterNul ==
    lastOp.ret = "Ok" =>
       /\ NulTerminated(input)
       /\ \A i \in 1..(Len(input) - 1) : input[i] # NUL
       /\ lastOp.op = "ObjectPath::from_bytes" => ObjectPathGrammar(NameOf(lastOp.val[1]))
       /\ lastOp.op = "InterfaceName::from_bytes" => InterfaceNameGrammar(NameOf(lastOp.val[1]))
       /\ lastOp.op = "BusName::from_bytes" => BusNameGrammar(NameOf(lastOp.val[1]))
       /\ lastOp.op = "MemberName::from_bytes" => MemberNameGrammar(NameOf(lastOp.val[1]))

\* ---------------------------------------------------------------------------
\* Validated names made from a pointer the runtime handed out.
\* ---------------------------------------------------------------------------
ObjectPath_from_ptr_unchecked(b) == from_bytes_unchecked(CStr_to_bytes(b))

InterfaceName_from_ptr_unchecked(b) == from_bytes_unchecked(CStr_to_bytes_with_nul(b))

BusName_from_ptr_unchecked(b) == from_bytes_unchecked(CStr_to_bytes(b))

MemberName_from_ptr_unchecked(b) == from_bytes_unchecked(CStr_to_bytes(b))

\* sd_bus_get_unique_name: fails, or stores the address of the connection's
\* unique name, the C string u.
sd_bus_get_unique_name(u) ==
    {[status |-> -1, e |-> NULL], [status |-> 0, e |-> u]}

\* BusRef::unique_name: sd_try!(sd_bus_get_unique_name(.., &mut e));
\* Ok(BusName::from_ptr_unchecked(e)).
unique_name_result(o) ==
    IF o.status < 0 THEN Err("sd_try") ELSE BusName_from_ptr_unchecked(o.e)

\* The slice is a C string the runtime can hold: one nul, its last byte.
CString(b) == Len(b) >= 1 /\ b[Len(b)] = NUL /\ \A i \in 1..(Len(b) - 1) : b[i] # NUL

\* from_ptr_unchecked on the address of a name of that kind.
FromPtr(op, valid, res) ==
    /\ CString(input)
    /\ valid.ret = "Ok"
    /\ Returned(op, res)

\* The connection's unique name is a bus name that starts with ':'.
unique_name ==
    /\ CString(input)
    /\ input[1] = COLON
    /\ BusName_from_bytes(input).ret = "Ok"
    /\ \E o \in sd_bus_get_unique_name(input) :
          Returned("BusRef::unique_name", unique_name_result(o))

NextPtr ==
    \/ FromPtr("ObjectPath::from_ptr_unchecked", ObjectPath_from_bytes(input),
               ObjectPath_from_ptr_unchecked(input))
    \/ FromPtr("InterfaceName::from_ptr_unchecked", InterfaceName_from_bytes(input),
               InterfaceName_from_ptr_unchecked(input))
    \/ FromPtr("BusName::from_ptr_unchecked", BusName_from_bytes(input),
               BusName_from_ptr_unchecked(input))
    \/ FromPtr("MemberName::from_ptr_unchecked", MemberName_from_bytes(input),
               MemberName_from_ptr_unchecked(input))
    \/ unique_name

SpecPtr == InitNames /\ [][NextPtr]_vars

FromPtrOps ==
    {"ObjectPath::from_ptr_unchecked", "InterfaceName::from_ptr_unchecked",
     "BusName::from_ptr_unchecked", "MemberName::from_ptr_unchecked", "BusRef::unique_name"}

\* C25 as claimed: the name from_ptr_unchecked (and so unique_name) makes of
\* a valid name the runtime holds ends with the nul terminator and is itself
\* accepted by the from_bytes of its kind.
C25_Original_SameRepresentation ==
    (lastOp.op \in FromPtrOps /\ lastOp.ret = "Ok") =>
       /\ NulTerminated(lastOp.val[1])
       /\ lastOp.op = "ObjectPath::from_ptr_unchecked"
             => ObjectPath_from_bytes(lastOp.val[1]).ret = "Ok"
       /\ lastOp.op = "InterfaceName::from_ptr_unchecked"
             => InterfaceName_from_bytes(lastOp.val[1]).ret = "Ok"
       /\ lastOp.op \in {"BusName::from_ptr_unchecked", "BusRef::unique_name"}
             => BusName_from_bytes(lastOp.val[1]).ret = "Ok"
       /\ lastOp.op = "MemberName::from_ptr_unchecked"
             => MemberName_from_bytes(lastOp.val[1]).ret = "Ok"

\* ---------------------------------------------------------------------------
\* The journal reader.  -journal- is [log, cur, current_field, data, sz]: the
\* entries of the journal, each the tuple of its fields "NAME=value"; the
\* entry the read pointer is on (0: before the first, Len(log) + 1: after the
\* last); how many fields of it were enumerated; the fields data and sz of
\* struct Journal.
\* ---------------------------------------------------------------------------
MaxEntries == 2

MaxFields == 2

MaxJournalOps == 6

EQ == 61

\* "A=1", "B=" and "C=x=y".
AllFields == <<<<65, 61, 49>>, <<66, 61>>, <<67, 61, 120, 61, 121>>>>

Windows ==
    {w \in (1..Len(AllFields)) \X (1..Len(AllFields)) : w[2] >= w[1] /\ w[2] - w[1] < MaxFields}

Entries == {SubSeq(AllFields, w[1], w[2]) : w \in Windows}

Journals == UNION {[1..n -> Entries] : n \in 0..MaxEntries}

OnEntry(j) == j.cur >= 1 /\ j.cur <= Len(j.log)

\* sd_journal_previous: fails, or moves the read pointer back by one entry
\* and returns 1, or returns 0 when no entry precedes it.  A new entry is
\* enumerated from its first field.
sd_journal_previous(j) ==
    {[status |-> -1, j |-> j],
     IF j.cur >= 2
     THEN [status |-> 1, j |-> [j EXCEPT !.cur = @ - 1, !.current_field = 0]]
     ELSE [status |-> 0, j |-> j]}

\* sd_journal_restart_data: the enumeration of the fields starts over.
sd_journal_restart_data(j) == [j EXCEPT !.current_field = 0]

\* sd_journal_enumerate_data(j, &data, &sz): fails (always, when the read
\* pointer is on no entry), or stores the address and the size of the next
\* field and returns 1, or returns 0 after the last field.
sd_journal_enumerate_data(j) ==
    {[status |-> -1, j |-> j]}
    \cup (IF ~OnEntry(j) THEN {}
          ELSE IF j.current_field < Len(j.log[j.cur])
          THEN {[status |-> 1,
                 j |-> [j EXCEPT !.current_field = @ + 1,
                                 !.data = j.log[j.cur][j.current_field + 1],
                                 !.sz = Len(j.log[j.cur][j.current_field + 1])]]}
          ELSE {[status |-> 0, j |-> j]})

slice_from_raw_parts(data, sz) == SubSeq(data, 1, sz)

\* field.splitn(2, '='): the text before the first '=' and the text after it.
splitn(field) ==
    LET eq == CHOOSE i \in 1..Len(field) : field[i] = EQ /\ \A k \in 1..(i - 1) : field[k] # EQ
    IN  <<SubSeq(field, 1, eq - 1), SubSeq(field, eq + 1, Len(field))>>

\* Journal::get_next_field, on what sd_journal_enumerate_data did.
get_next_field_result(o) ==
    IF o.status < 0 THEN [ret |-> "Err", v |-> None]
    ELSE IF o.status > 0
    THEN [ret |-> "Ok", v |-> Some(splitn(slice_from_raw_parts(o.j.data, o.j.sz)))]
    ELSE [ret |-> "Ok", v |-> None]

\* Journal::previous_record without its call of sd_journal_restart_data.
previous_record_no_restart(j) == [j EXCEPT !.sz = 0, !.data = NULL]

\* Journal::previous_record after sd_try!: restart_data, sz = 0, data = null.
previous_record_journal(j) == [sd_journal_restart_data(j) EXCEPT !.sz = 0, !.data = NULL]

previous_record_result(r) == IF r = 0 THEN None ELSE Some(r)

\* A journal opened and sought to some position, nothing enumerated yet.
InitJournal ==
    /\ bus = [refcnt |-> 0, released |-> 0]
    /\ busHandles = {}
    /\ busView = 0
    /\ msg = [m \in Msgs |-> NoMsg]
    /\ raw = [h \in Handles |-> 0]
    /\ cursors = {}
    /\ closure = "alive"
    /\ reg = "none"
    /\ inCb = 0
    /\ lastOp = Op("Journal::open", 0, 0, "Ok")
    /\ ops = 0
    /\ appended = <<>>
    /\ got = <<>>
    /\ input = <<>>
    /\ ret_error = <<>>
    /\ frees = 0
    /\ \E log \in Journals : \E cur \in 0..(Len(log) + 1) :
          journal = [log |-> log, cur |-> cur, current_field |-> 0, data |-> NULL, sz |-> 0]

JournalUnchanged ==
    /\ ops < MaxJournalOps
    /\ ops' = ops + 1
    /\ UNCHANGED <<busVars, msg, raw, cursors, cbVars, input, ret_error, frees>>

\* -got- holds what get_next_field returned in Ok since previous_record last
\* returned Ok, -appended- what it had returned before that.
get_next_field ==
    /\ \E o \in sd_journal_enumerate_data(journal) :
          /\ journal' = o.j
          /\ got' = IF get_next_field_result(o).ret = "Ok"
                    THEN Append(got, get_next_field_result(o).v) ELSE got
          /\ lastOp' = [Op("get_next_field", 0, o.status, get_next_field_result(o).ret)
                           EXCEPT !.val = <<get_next_field_result(o).v>>]
    /\ UNCHANGED appended
    /\ JournalUnchanged

previous_record ==
    /\ \E o \in sd_journal_previous(journal) :
          IF o.status < 0
          THEN /\ lastOp' = Op("previous_record", 0, o.status, "Err")
               /\ UNCHANGED <<journal, got, appended>>
          ELSE /\ journal' = previous_record_journal(o.j)
               /\ appended' = got
               /\ got' = <<>>
               /\ lastOp' = [Op("previous_record", 0, o.status, "Ok")
                                EXCEPT !.val = <<previous_record_result(o.status)>>]
    /\ JournalUnchanged

NextJournal ==
    \/ get_next_field
    \/ previous_record

SpecJournal == InitJournal /\ [][NextJournal]_vars

\* The pair is the field cut at its first '='.
CutAtFirstEq(field, pair) ==
    /\ pair[1] \o <<EQ>> \o pair[2] = field
    /\ \A i \in 1..Len(pair[1]) : pair[1][i] # EQ

\* C26: once previous_record has returned Ok(_), with Some or with None, the
\* calls of get_next_field that return Ok give the fields of the entry then
\* current, from its first field on and in order, each cut at its first '=',
\* and None after the last of them, however many fields were enumerated
\* before.
C26_FieldsFromFirst ==
    OnEntry(journal) =>
       \A i \in 1..Len(got) :
          IF i <= Len(journal.log[journal.cur])
          THEN /\ got[i] # None
               /\ CutAtFirstEq(journal.log[journal.cur][i], got[i][1])
          ELSE got[i] = None

\* C26 witness: one field of a two-field entry had been enumerated when
\* previous_record found no previous entry and returned Ok(None); since then
\* get_next_field has given both fields of that entry, the second one cut at
\* the first of its two '=', and then None.
C26_Witness ==
    /\ Len(journal.log) >= 1
    /\ journal.cur = 1
    /\ journal.log[1] = SubSeq(AllFields, 2, 3)
    /\ Len(appended) = 1
    /\ appended[1] # None
    /\ got = <<Some(<<<<66>>, <<>>>>), Some(<<<<67>>, <<120, 61, 121>>>>), None>>
    /\ lastOp.op = "get_next_field"
====
